---- MODULE Spec2Model ----
(***************************************************************************)
(* View state of the Map component (src/components/Map.tsx) and the event *)
(* handlers that write it.                                                 *)
(*                                                                         *)
(* Coordinates are kept as integer offsets from the default view centre,  *)
(* in steps of 0.01 degree:                                                *)
(*     longitude in degrees = -4.649779746122704 + 0.01 * c.longitude      *)
(*     latitude  in degrees = 17.08385049329921  + 0.01 * c.latitude       *)
(* The handlers only copy coordinates and subtract them, so the offsets   *)
(* carry everything the handlers compute.  sqrt is monotone, so           *)
(* sqrt(s) > t is compared as s > t * t.                                   *)
(*                                                                         *)
(* The five state variables hold the value of each React state after the  *)
(* writes made so far.  A handler created by a render reads the values    *)
(* of that render: `rendered` holds what the last render captured.        *)
(***************************************************************************)
EXTENDS Integers, FiniteSets, Sequences, TLC

VARIABLES coordinates, zoom, selectedLocation, mapStyle,
          lastWeatherCoordinates, rendered, event, toggles, quietSinceReset

state == <<coordinates, zoom, selectedLocation, mapStyle, lastWeatherCoordinates>>
vars == <<coordinates, zoom, selectedLocation, mapStyle,
          lastWeatherCoordinates, rendered, event, toggles, quietSinceReset>>

\* ---- bounds of the explored inputs ----
\* longitude offsets 0..MaxLon: distances below, at and above the threshold
MaxLon == 2
\* the style button is pressed at most MaxToggles times
MaxToggles == 2

\* ---- program constants ----
\* MOVEMENT_THRESHOLD = 0.02 degrees, in steps of 0.01 degree
MOVEMENT_THRESHOLD == 2
\* zoom from which the weather panel is rendered
WEATHER_MIN_ZOOM == 14
\* zoom written by a search selection
SELECT_ZOOM == 14
\* zoom written by the Ctrl+Q reset
DEFAULT_ZOOM == 2
\* zoom before the map reported any
INITIAL_ZOOM == 0

NULL == [null |-> TRUE]

Longitudes == 0..MaxLon

\* two latitude rows, so that both terms of the distance count
Latitudes == {0, 1}

Coordinates == [longitude : Longitudes, latitude : Latitudes]

\* the centre written by the Ctrl+Q reset (offset 0 from itself)
DEFAULT_CENTER == [longitude |-> 0, latitude |-> 0]

\* zoom levels a move event reports: below, at and above the weather zoom
MoveZooms == {DEFAULT_ZOOM, WEATHER_MIN_ZOOM, WEATHER_MIN_ZOOM + 2}

ViewStates == [longitude : Longitudes, latitude : Latitudes, zoom : MoveZooms]

Keys == {"q", "w"}

MAP_STYLES == {"STREETS", "SATELLITE"}

\* ---- pure helpers ----
Square(x) == x * x

\* the radicand of distanceMoved
DistanceSquared(lon, lat, from) ==
    Square(lon - from.longitude) + Square(lat - from.latitude)

\* variant: the comparison made inclusive
ExceedsThresholdInclusive(lon, lat, from) ==
    DistanceSquared(lon, lat, from) >= Square(MOVEMENT_THRESHOLD)

\* distanceMoved > MOVEMENT_THRESHOLD
ExceedsThreshold(lon, lat, from) ==
    DistanceSquared(lon, lat, from) > Square(MOVEMENT_THRESHOLD)

\* variant: the panel rendered whatever the zoom
WeatherDisplayAnyZoom(z, last) == last

\* the coordinate the WeatherDisplay is rendered for, NULL when it is not rendered
WeatherDisplay(z, last) ==
    IF z >= WEATHER_MIN_ZOOM /\ last # NULL THEN last ELSE NULL

\* what a render of the current state captures: the lastWeatherCoordinates that
\* handleMove closes over, and whether the Marker (and its onClick) exists
Snapshot ==
    [lastWeatherCoordinates |-> lastWeatherCoordinates,
     marker |-> selectedLocation # NULL]

\* variant: the button always selects the satellite style
ToggleStyleSatellite(current) == "SATELLITE"

ToggleStyle(current) == IF current = "STREETS" THEN "SATELLITE" ELSE "STREETS"

\* ---- initial state ----
\* coordinates and selectedLocation come from the coordinates context, whose
\* initial values Map.tsx does not set: any coordinate, any selection
Init ==
    /\ coordinates \in Coordinates
    /\ zoom = INITIAL_ZOOM
    /\ selectedLocation \in Coordinates \cup {NULL}
    /\ mapStyle = "STREETS"
    /\ lastWeatherCoordinates = NULL
    /\ rendered = [lastWeatherCoordinates |-> NULL, marker |-> selectedLocation # NULL]
    /\ event = [op |-> "mount"]
    /\ toggles = 0
    /\ quietSinceReset = FALSE

\* ---- handlers ----
\* variant: every move event replaces the weather coordinate
MoveWeatherCoordinatesAlways(vs) ==
    [longitude |-> vs.longitude, latitude |-> vs.latitude]

\* the value handleMove writes to lastWeatherCoordinates
MoveWeatherCoordinates(vs) ==
    IF rendered.lastWeatherCoordinates # NULL
    THEN IF ExceedsThreshold(vs.longitude, vs.latitude, rendered.lastWeatherCoordinates)
         THEN [longitude |-> vs.longitude, latitude |-> vs.latitude]
         ELSE lastWeatherCoordinates
    ELSE [longitude |-> vs.longitude, latitude |-> vs.latitude]

\* variant: a move event also drops the selected location
handleMoveDeselect(vs) ==
    /\ coordinates' = [longitude |-> vs.longitude, latitude |-> vs.latitude]
    /\ zoom' = vs.zoom
    /\ lastWeatherCoordinates' = MoveWeatherCoordinates(vs)
    /\ selectedLocation' = NULL
    /\ event' = [op |-> "move", viewState |-> vs]
    /\ quietSinceReset' = (quietSinceReset /\ vs.zoom < WEATHER_MIN_ZOOM)
    /\ UNCHANGED <<mapStyle, rendered, toggles>>

handleMove(vs) ==
    /\ coordinates' = [longitude |-> vs.longitude, latitude |-> vs.latitude]
    /\ zoom' = vs.zoom
    /\ lastWeatherCoordinates' = MoveWeatherCoordinates(vs)
    /\ event' = [op |-> "move", viewState |-> vs]
    /\ quietSinceReset' = (quietSinceReset /\ vs.zoom < WEATHER_MIN_ZOOM)
    /\ UNCHANGED <<selectedLocation, mapStyle, rendered, toggles>>

\* variant: the weather coordinate is not written
updateCoordinatesKeepWeather(newCoordinates) ==
    /\ coordinates' = newCoordinates
    /\ selectedLocation' = newCoordinates
    /\ UNCHANGED lastWeatherCoordinates

\* the state writes of updateCoordinates
updateCoordinates(newCoordinates) ==
    /\ coordinates' = newCoordinates
    /\ selectedLocation' = newCoordinates
    /\ lastWeatherCoordinates' = newCoordinates

\* CurrentLocationButton onUpdateCoordinates
CurrentLocation(c) ==
    /\ updateCoordinates(c)
    /\ event' = [op |-> "update", coordinates |-> c]
    /\ UNCHANGED <<zoom, mapStyle, rendered, toggles, quietSinceReset>>

\* SearchBar onSelectLocation
handleSelectLocation(lon, lat) ==
    /\ updateCoordinates([longitude |-> lon, latitude |-> lat])
    /\ zoom' = SELECT_ZOOM
    /\ event' = [op |-> "select", longitude |-> lon, latitude |-> lat]
    /\ quietSinceReset' = FALSE
    /\ UNCHANGED <<mapStyle, rendered, toggles>>

\* variant: the Ctrl modifier is not tested
IsResetShortcutAnyModifier(ctrlKey, key) == key = "q"

IsResetShortcut(ctrlKey, key) == ctrlKey /\ key = "q"

handleKeyPress(ctrlKey, key) ==
    /\ event' = [op |-> "keydown", ctrlKey |-> ctrlKey, key |-> key]
    /\ IF IsResetShortcut(ctrlKey, key)
       THEN /\ coordinates' = DEFAULT_CENTER
            /\ zoom' = DEFAULT_ZOOM
            /\ selectedLocation' = NULL
            /\ lastWeatherCoordinates' = NULL
            /\ quietSinceReset' = TRUE
            /\ UNCHANGED <<mapStyle, rendered, toggles>>
       ELSE UNCHANGED <<state, rendered, toggles, quietSinceReset>>

\* Marker onClick; the Marker exists when the last render had a selectedLocation
MarkerClick ==
    /\ rendered.marker
    /\ selectedLocation' = NULL
    /\ event' = [op |-> "marker"]
    /\ UNCHANGED <<coordinates, zoom, mapStyle, lastWeatherCoordinates,
                   rendered, toggles, quietSinceReset>>

\* ChangeMapStyleButton onToggle
Toggle ==
    /\ toggles < MaxToggles
    /\ mapStyle' = ToggleStyle(mapStyle)
    /\ toggles' = toggles + 1
    /\ event' = [op |-> "toggle"]
    /\ UNCHANGED <<coordinates, zoom, selectedLocation, lastWeatherCoordinates,
                   rendered, quietSinceReset>>

\* React re-renders after state writes: handleMove and the Marker are rebuilt
Render ==
    /\ rendered # Snapshot
    /\ rendered' = Snapshot
    /\ event' = [op |-> "render"]
    /\ UNCHANGED <<state, toggles, quietSinceReset>>

Next ==
    \/ \E vs \in ViewStates : handleMove(vs)
    \/ \E c \in Coordinates : CurrentLocation(c)
    \/ \E lon \in Longitudes, lat \in Latitudes : handleSelectLocation(lon, lat)
    \/ \E ctrlKey \in BOOLEAN, key \in Keys : handleKeyPress(ctrlKey, key)
    \/ MarkerClick
    \/ Toggle
    \/ Render

Spec == Init /\ [][Next]_vars

\* ---- properties ----
\* the coordinate a move event carries
MovedTo(ev) == [longitude |-> ev.viewState.longitude, latitude |-> ev.viewState.latitude]

IsMove(ev) == ev.op = "move"

IsReset(ev) == ev.op = "keydown" /\ ev.ctrlKey /\ ev.key = "q"

\* dlon^2 + dlat^2 between two coordinates
Delta2(a, b) ==
    (a.longitude - b.longitude) * (a.longitude - b.longitude)
      + (a.latitude - b.latitude) * (a.latitude - b.latitude)

C2_OnlyBeyondThreshold ==
    [][lastWeatherCoordinates' # lastWeatherCoordinates =>
         /\ lastWeatherCoordinates # NULL
         /\ lastWeatherCoordinates' # NULL
         /\ Delta2(lastWeatherCoordinates', lastWeatherCoordinates) > 4]_vars

\* C2 amended: a step changes lastWeatherCoordinates only if it is a move event
\* that finds no weather coordinate in handleMove or lies more than the
\* threshold from it (the event coordinate is written), a location update (the
\* new location is written), or the Ctrl+Q reset (null is written)
C2_ChangesOnlyBy ==
    [][lastWeatherCoordinates' # lastWeatherCoordinates =>
         \/ /\ IsMove(event')
            /\ \/ rendered.lastWeatherCoordinates = NULL
               \/ Delta2(MovedTo(event'), rendered.lastWeatherCoordinates) > 4
            /\ lastWeatherCoordinates' = MovedTo(event')
         \/ /\ event'.op = "update"
            /\ lastWeatherCoordinates' = event'.coordinates
         \/ /\ event'.op = "select"
            /\ lastWeatherCoordinates' =
                 [longitude |-> event'.longitude, latitude |-> event'.latitude]
         \/ /\ IsReset(event')
            /\ lastWeatherCoordinates' = NULL]_vars

\* C2 witness: a move event beyond the threshold replaced the weather coordinate
C2_Witness ==
    /\ IsMove(event)
    /\ rendered.lastWeatherCoordinates # NULL
    /\ Delta2(MovedTo(event), rendered.lastWeatherCoordinates) > 4
    /\ lastWeatherCoordinates = MovedTo(event)

\* C3: a keydown with Ctrl and 'q' leaves coordinates at the default centre,
\* zoom 2, selectedLocation and lastWeatherCoordinates null, whatever the state
\* was; any other keydown changes no state
C3_ResetShortcut ==
    [][event'.op = "keydown" =>
         IF event'.ctrlKey /\ event'.key = "q"
         THEN /\ coordinates' = [longitude |-> 0, latitude |-> 0]
              /\ zoom' = 2
              /\ selectedLocation' = NULL
              /\ lastWeatherCoordinates' = NULL
         ELSE UNCHANGED state]_vars

\* C3 witness: the reset was handled while a marker and a weather coordinate
\* were on screen
C3_Witness ==
    /\ IsReset(event)
    /\ rendered.marker
    /\ rendered.lastWeatherCoordinates # NULL
    /\ rendered.lastWeatherCoordinates # [longitude |-> 0, latitude |-> 0]
    /\ lastWeatherCoordinates = NULL

\* C4: mapStyle is STREETS or SATELLITE, it is STREETS exactly after an even
\* number of toggles, and only the style button changes it, every press
C4_StyleParity ==
    /\ [](/\ mapStyle \in {"STREETS", "SATELLITE"}
          /\ (mapStyle = "STREETS") <=> (toggles % 2 = 0))
    /\ [][(mapStyle' # mapStyle) <=> (event'.op = "toggle")]_vars

\* C4 witness: two toggles, interleaved with a location update, a move and a
\* reset, restored STREETS
C4_Witness ==
    /\ toggles = 2
    /\ mapStyle = "STREETS"
    /\ IsReset(event)

\* C5: the weather panel is rendered exactly for zoom >= 14 with a weather
\* coordinate, and for that coordinate; from a Ctrl+Q reset until a move event
\* reports zoom >= 14 or a search selection is made it is not rendered
C5_HiddenAfterReset ==
    /\ (WeatherDisplay(zoom, lastWeatherCoordinates) # NULL)
         <=> (zoom >= 14 /\ lastWeatherCoordinates # NULL)
    /\ WeatherDisplay(zoom, lastWeatherCoordinates) \in {NULL, lastWeatherCoordinates}
    /\ IsReset(event) => WeatherDisplay(zoom, lastWeatherCoordinates) = NULL
    /\ quietSinceReset => WeatherDisplay(zoom, lastWeatherCoordinates) = NULL

\* C5 witness: after a reset a current-location update set the weather
\* coordinate and the panel is still hidden
C5_Witness ==
    /\ quietSinceReset
    /\ event.op = "update"
    /\ lastWeatherCoordinates # NULL
    /\ WeatherDisplay(zoom, lastWeatherCoordinates) = NULL

\* C6: a current-location update leaves coordinates, selectedLocation and
\* lastWeatherCoordinates at the new location and zoom unchanged; a search
\* selection leaves the three at (lon, lat), zoom at 14 and the weather panel
\* rendered for (lon, lat)
C6_LocationUpdate ==
    [][/\ event'.op = "update" =>
            /\ coordinates' = event'.coordinates
            /\ selectedLocation' = event'.coordinates
            /\ lastWeatherCoordinates' = event'.coordinates
            /\ zoom' = zoom
       /\ event'.op = "select" =>
            LET loc == [longitude |-> event'.longitude, latitude |-> event'.latitude]
            IN /\ coordinates' = loc
               /\ selectedLocation' = loc
               /\ lastWeatherCoordinates' = loc
               /\ zoom' = 14
               /\ WeatherDisplay(zoom', lastWeatherCoordinates') = loc]_vars

\* C6 witness: a search selection made while another weather coordinate was on
\* screen
C6_Witness ==
    /\ event.op = "select"
    /\ rendered.lastWeatherCoordinates # NULL
    /\ rendered.lastWeatherCoordinates # lastWeatherCoordinates
    /\ selectedLocation = lastWeatherCoordinates
    /\ coordinates = lastWeatherCoordinates

\* C7: a move event writes the event's coordinate and zoom and leaves
\* selectedLocation and mapStyle alone; selectedLocation changes only by a
\* search selection, a current-location update, a marker click or the reset;
\* a marker click writes null to it and nothing else
C7_MoveFrame ==
    [][/\ IsMove(event') =>
            /\ coordinates' = MovedTo(event')
            /\ zoom' = event'.viewState.zoom
            /\ selectedLocation' = selectedLocation
            /\ mapStyle' = mapStyle
       /\ selectedLocation' # selectedLocation =>
            \/ event'.op \in {"select", "update", "marker"}
            \/ IsReset(event')
       /\ event'.op = "marker" =>
            /\ selectedLocation' = NULL
            /\ UNCHANGED <<coordinates, zoom, mapStyle, lastWeatherCoordinates>>]_vars

\* C7 witness: the map was moved away from a selected location, which stayed
C7_Witness ==
    /\ IsMove(event)
    /\ selectedLocation # NULL
    /\ selectedLocation # coordinates
    /\ rendered.marker

\* C8 as stated: whenever a weather coordinate exists, the view centre is within
\* the threshold of it
C8_WithinThreshold ==
    lastWeatherCoordinates # NULL =>
        Delta2(coordinates, lastWeatherCoordinates) <= 4

\* C9 as stated: a move event or a location update leaves a weather coordinate,
\* the first move after start or reset leaves the event coordinate, and only
\* the reset writes null
C9_NullUntilMoved ==
    [][/\ event'.op \in {"move", "update", "select"} => lastWeatherCoordinates' # NULL
       /\ (IsMove(event') /\ lastWeatherCoordinates = NULL) =>
            lastWeatherCoordinates' = MovedTo(event')
       /\ (lastWeatherCoordinates # NULL /\ lastWeatherCoordinates' = NULL) =>
            IsReset(event')
       /\ IsReset(event') => lastWeatherCoordinates' = NULL]_vars

\* C10 as stated: every move event is tested against the weather coordinate
\* left by the handler before it, and writes what that value decides
C10_NoStaleMove ==
    [][IsMove(event') =>
         /\ rendered.lastWeatherCoordinates = lastWeatherCoordinates
         /\ lastWeatherCoordinates' =
              IF lastWeatherCoordinates = NULL
                   \/ Delta2(MovedTo(event'), lastWeatherCoordinates) > 4
              THEN MovedTo(event')
              ELSE lastWeatherCoordinates]_vars

====
